---- MODULE Spec2Model ----
(***************************************************************************)
(* SingleLinkedList<Type> of single-linked-list.h as a state machine.      *)
(*                                                                         *)
(* The free store is a partial map from addresses to Node records; a list  *)
(* object is its sentinel's next_node link plus size_.  Every member       *)
(* function is an operator on a "machine" record (heap, head_, size_ and   *)
(* the log of new/delete calls); because operator new may return any free  *)
(* address, the operators that allocate return the SET of machines the     *)
(* call can produce.  One action per member function commits one of them.  *)
(***************************************************************************)
EXTENDS Integers, Sequences, FiniteSets, TLC

VARIABLES heap, head_, size_, alive, last, ops

vars == <<heap, head_, size_, alive, last, ops>>

(* ------------------------------ bounds -------------------------------- *)
\* longest initializer list a list is constructed from
MaxLen == 2
\* element values are 1..MaxVal, ordered as integers
MaxVal == 2
\* member-function calls the client makes after constructing its lists
MaxOps == 2

Values == 1..MaxVal
\* the two named list objects of the client program
Lists == {1, 2}
\* addresses of the free store: enough for this, rhs, tmp1 and tmp2 when each
\* holds the longest list MaxOps calls can grow from a constructed one
Addr == 1..(4 * (MaxLen + MaxOps))

(* --------------------------- pointers --------------------------------- *)
\* nullptr
NULL == 0
\* &head_ of list object l (the node embedded in the list)
Sentinel(l) == -l
\* automatic objects of operator= and CopyList
tmp == 3
tmp1 == 4
tmp2 == 5

\* struct Node
Node(val, next) == [value |-> val, next_node |-> next]

\* p->next_node, for a heap node or a sentinel
NextNode(m, p) == IF p < 0 THEN m.head[-p] ELSE m.heap[p].next_node

\* p->next_node = q
SetNextNode(m, p, q) ==
    IF p < 0 THEN [m EXCEPT !.head[-p] = q]
             ELSE [m EXCEPT !.heap[p].next_node = q]

\* the machine the member functions run on, read from the variables
Machine == [heap |-> heap, head |-> head_, size |-> size_,
            created |-> <<>>, deleted |-> <<>>]

\* addresses operator new can return
FreeAddr(m) == Addr \ DOMAIN m.heap
\* the allocator is first-fit: the lowest free address
NewChoices(m) == {a \in FreeAddr(m) : \A b \in FreeAddr(m) : a <= b}

\* new Node(val, next) placed at address a
NewNode(m, a, val, next) ==
    [m EXCEPT !.heap = (a :> Node(val, next)) @@ m.heap,
              !.created = Append(@, a)]

\* delete p
DeleteNode(m, p) ==
    [m EXCEPT !.heap = [a \in (DOMAIN m.heap) \ {p} |-> m.heap[a]],
              !.deleted = Append(@, p)]

\* a list object coming into scope: Node head_ = Node(); size_t size_ = 0;
Declare(m, l) ==
    [m EXCEPT !.head = (l :> NULL) @@ m.head, !.size = (l :> 0) @@ m.size]

\* a list object's storage going away after its destructor body ran
Forget(m, l) ==
    [m EXCEPT !.head = [x \in (DOMAIN m.head) \ {l} |-> m.head[x]],
              !.size = [x \in (DOMAIN m.size) \ {l} |-> m.size[x]]]

(* ------------------------- member functions --------------------------- *)
PushFrontAt(m, l, value, front) ==
    LET m1 == NewNode(m, front, value, m.head[l])
        m2 == [m1 EXCEPT !.head[l] = front]
    IN  [m2 EXCEPT !.size[l] = @ + 1]

PushFront(m, l, value) == {PushFrontAt(m, l, value, a) : a \in NewChoices(m)}

\* Clear that deletes the first node and drops the rest
ClearLoop_FirstOnly(m, l) ==
    IF m.head[l] # NULL
    THEN [DeleteNode(m, m.head[l]) EXCEPT !.head[l] = NULL]
    ELSE m

RECURSIVE ClearLoop(_, _)
ClearLoop(m, l) ==
    IF m.head[l] # NULL
    THEN LET t  == m.heap[m.head[l]].next_node
             m1 == DeleteNode(m, m.head[l])
         IN  ClearLoop([m1 EXCEPT !.head[l] = t], l)
    ELSE m

\* Clear that forgets size_ = 0
Clear_KeepSize(m, l) == ClearLoop(m, l)

Clear(m, l) == [ClearLoop(m, l) EXCEPT !.size[l] = 0]

\* PopFront that forgets --size_
PopFront_KeepSize(m, l) ==
    LET t  == m.head[l]
        m1 == [m EXCEPT !.head[l] = m.heap[m.head[l]].next_node]
    IN  DeleteNode(m1, t)

PopFront(m, l) ==
    LET t  == m.head[l]
        m1 == [m EXCEPT !.head[l] = m.heap[m.head[l]].next_node]
        m2 == [m1 EXCEPT !.size[l] = @ - 1]
    IN  DeleteNode(m2, t)

\* InsertAfter that forgets ++size_
InsertAfterAt_NoCount(m, l, pos, value, new_node) ==
    LET m1 == NewNode(m, new_node, value, NextNode(m, pos))
    IN  SetNextNode(m1, pos, new_node)

\* InsertAfter whose new node does not take over the successor of pos
InsertAfterAt_DropTail(m, l, pos, value, new_node) ==
    LET m1 == NewNode(m, new_node, value, NULL)
        m2 == SetNextNode(m1, pos, new_node)
    IN  [m2 EXCEPT !.size[l] = @ + 1]

InsertAfterAt(m, l, pos, value, new_node) ==
    LET m1 == NewNode(m, new_node, value, NextNode(m, pos))
        m2 == SetNextNode(m1, pos, new_node)
    IN  [m2 EXCEPT !.size[l] = @ + 1]

InsertAfter(m, l, pos, value) ==
    {InsertAfterAt(m, l, pos, value, a) : a \in NewChoices(m)}

\* EraseAfter that forgets --size_
EraseAfter_KeepSize(m, l, pos) ==
    LET t  == NextNode(m, NextNode(m, pos))
        m1 == DeleteNode(m, NextNode(m, pos))
    IN  SetNextNode(m1, pos, t)

\* EraseAfter that does not relink pos to the node after the erased one
EraseAfter_DropRest(m, l, pos) ==
    LET m1 == DeleteNode(m, NextNode(m, pos))
        m2 == SetNextNode(m1, pos, NULL)
    IN  [m2 EXCEPT !.size[l] = @ - 1]

EraseAfter(m, l, pos) ==
    LET t  == NextNode(m, NextNode(m, pos))
        m1 == DeleteNode(m, NextNode(m, pos))
        m2 == SetNextNode(m1, pos, t)
    IN  [m2 EXCEPT !.size[l] = @ - 1]

\* swap that exchanges the head links only
swap_HeadOnly(m, this, rhs) ==
    [m EXCEPT !.head[rhs] = m.head[this], !.head[this] = m.head[rhs]]

\* this->swap(rhs)
swap(m, this, rhs) ==
    LET m1 == [m EXCEPT !.head[rhs] = m.head[this], !.head[this] = m.head[rhs]]
    IN  [m1 EXCEPT !.size[rhs] = m.size[this], !.size[this] = m.size[rhs]]

\* swap(lhs, rhs), the free function
FreeSwap(m, lhs, rhs) == swap(m, rhs, lhs)

(* ------------------------------ iterators ----------------------------- *)
\* BasicIterator{node}
Iterator(node) == [node_ |-> node]
\* const Type* into the array of an initializer_list
ArrayIt(arr, i) == [arr |-> arr, i |-> i]
IsNodeIt(it) == "node_" \in DOMAIN it

begin(m, l) == Iterator(m.head[l])
end == Iterator(NULL)
\* before_begin that returns the first node instead of the sentinel
before_begin_AsBegin(l) == Iterator(head_[l])

before_begin(l) == Iterator(Sentinel(l))

\* iter != end for the two iterator kinds CopyList is instantiated with
ItNotEqual(x, y) == IF IsNodeIt(x) THEN ~(x.node_ = y.node_) ELSE x.i # y.i
\* *iter
Deref(m, it) == IF IsNodeIt(it) THEN m.heap[it.node_].value ELSE it.arr[it.i]
\* ++iter
Increment(m, it) ==
    IF IsNodeIt(it) THEN Iterator(NextNode(m, it.node_))
                    ELSE ArrayIt(it.arr, it.i + 1)

\* ConstIterator{node}: BasicIterator<const Type>
ConstIterator(node) == [node_ |-> node, const |-> TRUE]
\* the read-only traversal starts
cbegin(m, l) == ConstIterator(m.head[l])
cend == ConstIterator(NULL)
cbefore_begin(l) == ConstIterator(Sentinel(l))

\* lhs == rhs for iterators, rhs mutable or read-only
ItEq(x, y) == x.node_ = y.node_
\* lhs != rhs for iterators
ItNe(x, y) == ~(x.node_ = y.node_)

\* ++it, which keeps the iterator's access mode; node_ is asserted non-null
PreIncrement(m, it) == [it EXCEPT !.node_ = NextNode(m, @)]

\* it after k increments
RECURSIVE Advance(_, _, _)
Advance(m, it, k) == IF k = 0 THEN it ELSE Advance(m, PreIncrement(m, it), k - 1)

\* for (; it != end(); ++it) ++n;  given up after more steps than addresses
RECURSIVE CountToEnd(_, _, _)
CountToEnd(m, it, n) ==
    IF ItEq(it, end) \/ n > Cardinality(Addr) THEN n
    ELSE CountToEnd(m, PreIncrement(m, it), n + 1)

(* ------------------------------ CopyList ------------------------------ *)
\* for (auto iter = first; iter != last; iter++) dst.PushFront(*iter);
RECURSIVE PushAll(_, _, _, _)
PushAll(m, dst, iter, lastIt) ==
    IF ItNotEqual(iter, lastIt)
    THEN UNION {PushAll(m1, dst, Increment(m1, iter), lastIt) :
                    m1 \in PushFront(m, dst, Deref(m, iter))}
    ELSE {m}

\* CopyList that adopts the first temporary: one reversal only
CopyList_OneReversal(m, this, first, lastIt) ==
    LET m0 == Declare(Declare(m, tmp1), tmp2)
        S1 == PushAll(m0, tmp1, first, lastIt)
    IN  {Forget(Clear(Forget(Clear(swap(m1, this, tmp1), tmp2), tmp2), tmp1), tmp1)
            : m1 \in S1}

CopyList(m, this, first, lastIt) ==
    LET m0 == Declare(Declare(m, tmp1), tmp2)
        S1 == PushAll(m0, tmp1, first, lastIt)
        S2 == UNION {PushAll(m1, tmp2, begin(m1, tmp1), end) : m1 \in S1}
    IN  {Forget(Clear(Forget(Clear(swap(m2, this, tmp2), tmp2), tmp2), tmp1), tmp1)
            : m2 \in S2}

\* SingleLinkedList(std::initializer_list<Type> list)
InitListCtor(m, this, list) ==
    CopyList(Declare(m, this), this, ArrayIt(list, 1), ArrayIt(list, Len(list) + 1))

\* copy constructor that shares the nodes of other
CopyCtor_Shallow(m, this, other) ==
    {[Declare(m, this) EXCEPT !.head[this] = m.head[other],
                              !.size[this] = m.size[other]]}

\* SingleLinkedList(const SingleLinkedList& other)
CopyCtor(m, this, other) ==
    CopyList(Declare(m, this), this, begin(m, other), end)

\* operator= without the test for self-assignment
CopyAssign_NoSelfCheck(m, this, rhs) ==
    {Forget(Clear(swap(m1, this, tmp), tmp), tmp) : m1 \in CopyCtor(m, tmp, rhs)}

\* operator=(const SingleLinkedList& rhs)
CopyAssign(m, this, rhs) ==
    IF this # rhs
    THEN {Forget(Clear(swap(m1, this, tmp), tmp), tmp) : m1 \in CopyCtor(m, tmp, rhs)}
    ELSE {m}

\* ~SingleLinkedList()
Dtor(m, this) == Clear(m, this)

(* ----------------------- allocation failure --------------------------- *)
\* The same functions when operator new throws std::bad_alloc after q more
\* allocations have succeeded.  An outcome is the machine, the allocations
\* still to succeed, and whether the exception is propagating.
Outcome3(m, q, thrown) == [m |-> m, q |-> q, thrown |-> thrown]

\* for (auto iter = first; iter != last; iter++) dst.PushFront(*iter);
RECURSIVE PushAllOrThrow(_, _, _, _, _)
PushAllOrThrow(m, dst, iter, lastIt, q) ==
    IF ItNotEqual(iter, lastIt)
    THEN IF q = 0
         THEN {Outcome3(m, 0, TRUE)}
         ELSE UNION {PushAllOrThrow(m1, dst, Increment(m1, iter), lastIt, q - 1) :
                        m1 \in PushFront(m, dst, Deref(m, iter))}
    ELSE {Outcome3(m, q, FALSE)}

\* leaving CopyList, by return or by the exception: ~tmp2 then ~tmp1
LeaveCopyList(m) == Forget(Clear(Forget(Clear(m, tmp2), tmp2), tmp1), tmp1)

CopyListOrThrow(m, this, first, lastIt, q) ==
    LET m0 == Declare(Declare(m, tmp1), tmp2)
        R1 == PushAllOrThrow(m0, tmp1, first, lastIt, q)
        R2 == UNION {IF r.thrown THEN {r}
                     ELSE PushAllOrThrow(r.m, tmp2, begin(r.m, tmp1), end, r.q) :
                        r \in R1}
    IN  {IF r.thrown THEN [r EXCEPT !.m = LeaveCopyList(r.m)]
         ELSE [r EXCEPT !.m = LeaveCopyList(swap(r.m, this, tmp2))] : r \in R2}

CopyCtorOrThrow(m, this, other, q) ==
    CopyListOrThrow(Declare(m, this), this, begin(m, other), end, q)

\* operator= that empties the target before it copies into it
CopyAssignOrThrow_ClearFirst(m, this, rhs, q) ==
    IF this # rhs
    THEN CopyListOrThrow(Clear(m, this), this, begin(m, rhs), end, q)
    ELSE {Outcome3(m, q, FALSE)}

\* operator=: when the constructor of tmp throws, tmp never existed and its
\* destructor does not run
CopyAssignOrThrow(m, this, rhs, q) ==
    IF this # rhs
    THEN {IF r.thrown THEN [r EXCEPT !.m = Forget(r.m, tmp)]
          ELSE [r EXCEPT !.m = Forget(Clear(swap(r.m, this, tmp), tmp), tmp)] :
             r \in CopyCtorOrThrow(m, tmp, rhs, q)}
    ELSE {Outcome3(m, q, FALSE)}

(* ------------------- states inside a copy ----------------------------- *)
\* every machine the loop passes through, the first and the last included
RECURSIVE PushAllStages(_, _, _, _)
PushAllStages(m, dst, iter, lastIt) ==
    {m} \cup
    (IF ItNotEqual(iter, lastIt)
     THEN UNION {PushAllStages(m1, dst, Increment(m1, iter), lastIt) :
                    m1 \in PushFront(m, dst, Deref(m, iter))}
     ELSE {})

\* the machines CopyList passes through: after each PushFront, after the
\* swap, and after each of the two destructors
CopyListStages(m, this, first, lastIt) ==
    LET m0 == Declare(Declare(m, tmp1), tmp2)
        S1 == PushAll(m0, tmp1, first, lastIt)
        S2 == UNION {PushAll(m1, tmp2, begin(m1, tmp1), end) : m1 \in S1}
    IN  PushAllStages(m0, tmp1, first, lastIt)
        \cup UNION {PushAllStages(m1, tmp2, begin(m1, tmp1), end) : m1 \in S1}
        \cup UNION {{swap(m2, this, tmp2),
                     Forget(Clear(swap(m2, this, tmp2), tmp2), tmp2),
                     LeaveCopyList(swap(m2, this, tmp2))} : m2 \in S2}

\* the machines the copy constructor passes through
CopyCtorStages(m, this, other) ==
    CopyListStages(Declare(m, this), this, begin(m, other), end)

\* the machines operator= passes through
CopyAssignStages(m, this, rhs) ==
    IF this # rhs
    THEN CopyCtorStages(m, tmp, rhs)
         \cup UNION {{swap(m1, this, tmp),
                      Forget(Clear(swap(m1, this, tmp), tmp), tmp)} :
                        m1 \in CopyCtor(m, tmp, rhs)}
    ELSE {m}

(* --------------------------- observations ----------------------------- *)
\* the nodes met by following next_node from p, at most n of them
RECURSIVE Chain(_, _, _)
Chain(m, p, n) ==
    IF p = NULL \/ n = 0 THEN <<>>
    ELSE <<p>> \o Chain(m, m.heap[p].next_node, n - 1)

\* nodes reachable from the sentinel of l in machine m, the sentinel not included
NodesOf(m, l) == Chain(m, m.head[l], Cardinality(Addr) + 1)
\* what iterating l from begin() to end() dereferences
ElemsOf(m, l) == [i \in 1..Len(NodesOf(m, l)) |-> m.heap[NodesOf(m, l)[i]].value]

Nodes(l) == NodesOf(Machine, l)
Elems(l) == ElemsOf(Machine, l)
GetSize(l) == size_[l]
IsEmpty(l) == size_[l] = 0

View(l) == [alive |-> alive[l], nodes |-> Nodes(l), elems |-> Elems(l),
            size |-> size_[l]]
Snapshot == [l \in Lists |-> View(l)]

SeqsUpTo(n) == UNION {[1..k -> Values] : k \in 0..n}

\* positions InsertAfter accepts: before_begin() or a node of this list
ValidPos(l) == {Sentinel(l)} \cup {Nodes(l)[i] : i \in 1..Len(Nodes(l))}

(* ------------------------- comparison operators ----------------------- *)
\* std::equal with three iterators: stops at the end of the first range
RECURSIVE StdEqual_PrefixOnly(_, _, _)
StdEqual_PrefixOnly(m, first1, first2) ==
    IF first1 # NULL /\ first2 # NULL
    THEN IF ~(m.heap[first1].value = m.heap[first2].value)
         THEN FALSE
         ELSE StdEqual_PrefixOnly(m, m.heap[first1].next_node,
                                  m.heap[first2].next_node)
    ELSE first1 = NULL

\* std::equal(first1, end, first2, end) on forward iterators
RECURSIVE StdEqual(_, _, _)
StdEqual(m, first1, first2) ==
    IF first1 # NULL /\ first2 # NULL
    THEN IF ~(m.heap[first1].value = m.heap[first2].value)
         THEN FALSE
         ELSE StdEqual(m, m.heap[first1].next_node, m.heap[first2].next_node)
    ELSE first1 = NULL /\ first2 = NULL

\* lexicographical_compare that calls two ranges of equal length less
RECURSIVE StdLexicographicalCompare_NoTie(_, _, _)
StdLexicographicalCompare_NoTie(m, first1, first2) ==
    IF first1 # NULL /\ first2 # NULL
    THEN IF m.heap[first1].value < m.heap[first2].value THEN TRUE
         ELSE IF m.heap[first2].value < m.heap[first1].value THEN FALSE
         ELSE StdLexicographicalCompare_NoTie(m, m.heap[first1].next_node,
                                              m.heap[first2].next_node)
    ELSE first1 = NULL

\* std::lexicographical_compare(first1, end, first2, end)
RECURSIVE StdLexicographicalCompare(_, _, _)
StdLexicographicalCompare(m, first1, first2) ==
    IF first1 # NULL /\ first2 # NULL
    THEN IF m.heap[first1].value < m.heap[first2].value THEN TRUE
         ELSE IF m.heap[first2].value < m.heap[first1].value THEN FALSE
         ELSE StdLexicographicalCompare(m, m.heap[first1].next_node,
                                        m.heap[first2].next_node)
    ELSE first1 = NULL /\ first2 # NULL

\* lhs == rhs
OpEq(lhs, rhs) == StdEqual(Machine, begin(Machine, lhs).node_, begin(Machine, rhs).node_)
\* lhs != rhs
OpNe(lhs, rhs) == ~OpEq(lhs, rhs)
\* lhs < rhs
OpLt(lhs, rhs) ==
    StdLexicographicalCompare(Machine, begin(Machine, lhs).node_,
                              begin(Machine, rhs).node_)
\* lhs > rhs
OpGt(lhs, rhs) == OpLt(rhs, lhs)
\* lhs <= rhs
OpLe(lhs, rhs) == ~OpLt(rhs, lhs)
\* lhs >= rhs
OpGe(lhs, rhs) == ~OpLt(lhs, rhs)

(* ------------------------------- actions ------------------------------ *)
MutOps == {"PushFront", "PopFront", "InsertAfter", "EraseAfter", "Clear", "Write"}
CopyOps == {"CopyCtor", "CopyAssign"}
SwapOps == {"swap", "FreeSwap"}

\* history: the call (op on l, r, at pos) continues the previous call: a pop
\* after a push on the same list, a swap after a swap of the same two lists, a
\* mutation of a list that the previous call copied from or to, an insertion
\* into a list just cleared, an EraseAfter at the position of an InsertAfter,
\* a self-assignment after a self-swap
Sequel(op, l, r, pos) ==
    \/ op = "PopFront" /\ last.op = "PushFront" /\ last.l = l
    \/ op \in SwapOps /\ last.op \in SwapOps /\ {l, r} = {last.l, last.r}
    \/ op \in MutOps /\ last.op \in CopyOps /\ last.l # last.r
          /\ l \in {last.l, last.r}
    \/ op \in {"PushFront", "InsertAfter"} /\ last.op = "Clear" /\ last.l = l
    \/ op = "EraseAfter" /\ last.op = "InsertAfter" /\ last.l = l /\ last.pos = pos
    \/ op = "CopyAssign" /\ l = r /\ last.op \in SwapOps /\ last.l = l /\ last.r = l

\* history: the last call, its arguments and result, the new and delete calls
\* it made in order, the lists before it, and the call it continues
Record(op, l, r, v, pos, ret, m) ==
    [op |-> op, l |-> l, r |-> r, v |-> v, pos |-> pos, ret |-> ret,
     created |-> m.created, deleted |-> m.deleted, pre |-> Snapshot,
     prev |-> IF Sequel(op, l, r, pos) THEN last.op ELSE ""]

Commit(m) ==
    /\ heap' = m.heap
    /\ head_' = [l \in Lists |-> m.head[l]]
    /\ size_' = [l \in Lists |-> m.size[l]]
    /\ ops' = ops + 1

\* the machine before any list object exists
Empty == [heap |-> <<>>, head |-> [l \in Lists |-> NULL],
          size |-> [l \in Lists |-> 0], created |-> <<>>, deleted |-> <<>>]

\* a list the client has not declared yet
NotYet == <<0>>

\* SingleLinkedList<Type> l{list}; for the lists the client starts with
Construct(M, l, list) ==
    IF list = NotYet THEN M
    ELSE UNION {InitListCtor(m, l, list) : m \in M}

Init ==
    \E l1, l2 \in SeqsUpTo(MaxLen) \cup {NotYet} :
        \E m \in Construct(Construct({Empty}, 1, l1), 2, l2) :
            /\ heap = m.heap
            /\ head_ = m.head
            /\ size_ = m.size
            /\ alive = (1 :> (l1 # NotYet)) @@ (2 :> (l2 # NotYet))
            /\ ops = 0
            /\ last = [op |-> "Init", l |-> 0, r |-> 0, v |-> 0, pos |-> NULL,
                       ret |-> NULL, created |-> <<>>, deleted |-> <<>>,
                       pre |-> <<>>, prev |-> ""]

CallDefaultCtor(l) ==
    /\ ops < MaxOps
    /\ ~alive[l]
    /\ Commit(Declare(Machine, l))
    /\ alive' = [alive EXCEPT ![l] = TRUE]
    /\ last' = Record("DefaultCtor", l, 0, 0, NULL, NULL, Machine)

CallInitListCtor(l, list) ==
    /\ ops < MaxOps
    /\ ~alive[l]
    /\ \E m \in InitListCtor(Machine, l, list) :
          /\ Commit(m)
          /\ last' = Record("InitListCtor", l, 0, list, NULL, NULL, m)
    /\ alive' = [alive EXCEPT ![l] = TRUE]

CallCopyCtor(l, other) ==
    /\ ops < MaxOps
    /\ ~alive[l]
    /\ alive[other]
    /\ \E m \in CopyCtor(Machine, l, other) :
          /\ Commit(m)
          /\ last' = Record("CopyCtor", l, other, 0, NULL, NULL, m)
    /\ alive' = [alive EXCEPT ![l] = TRUE]

CallCopyAssign(l, rhs) ==
    /\ ops < MaxOps
    /\ alive[l]
    /\ alive[rhs]
    /\ \E m \in CopyAssign(Machine, l, rhs) :
          /\ Commit(m)
          /\ last' = Record("CopyAssign", l, rhs, 0, NULL, NULL, m)
    /\ UNCHANGED alive

\* l = rhs where the allocation after the q-th throws std::bad_alloc
CallCopyAssignThrow(l, rhs, q) ==
    /\ ops < MaxOps
    /\ alive[l]
    /\ alive[rhs]
    /\ \E r \in CopyAssignOrThrow(Machine, l, rhs, q) :
          /\ r.thrown
          /\ Commit(r.m)
          /\ last' = Record("CopyAssignThrow", l, rhs, q, NULL, NULL, r.m)
    /\ UNCHANGED alive

CallDtor(l) ==
    /\ ops < MaxOps
    /\ alive[l]
    /\ LET m == Dtor(Machine, l)
       IN  /\ Commit(m)
           /\ last' = Record("Dtor", l, 0, 0, NULL, NULL, m)
    /\ alive' = [alive EXCEPT ![l] = FALSE]

CallSwap(l, rhs) ==
    /\ ops < MaxOps
    /\ alive[l]
    /\ alive[rhs]
    /\ LET m == swap(Machine, l, rhs)
       IN  /\ Commit(m)
           /\ last' = Record("swap", l, rhs, 0, NULL, NULL, m)
    /\ UNCHANGED alive

CallFreeSwap(lhs, rhs) ==
    /\ ops < MaxOps
    /\ alive[lhs]
    /\ alive[rhs]
    /\ LET m == FreeSwap(Machine, lhs, rhs)
       IN  /\ Commit(m)
           /\ last' = Record("FreeSwap", lhs, rhs, 0, NULL, NULL, m)
    /\ UNCHANGED alive

CallPushFront(l, v) ==
    /\ ops < MaxOps
    /\ alive[l]
    /\ \E m \in PushFront(Machine, l, v) :
          /\ Commit(m)
          /\ last' = Record("PushFront", l, 0, v, NULL, NULL, m)
    /\ UNCHANGED alive

\* size_ != 0 is the assert of PopFront; the list has a first node to remove
CallPopFront(l) ==
    /\ ops < MaxOps
    /\ alive[l]
    /\ size_[l] # 0
    /\ begin(Machine, l) # end
    /\ LET m == PopFront(Machine, l)
       IN  /\ Commit(m)
           /\ last' = Record("PopFront", l, 0, heap[head_[l]].value, NULL, NULL, m)
    /\ UNCHANGED alive

CallClear(l) ==
    /\ ops < MaxOps
    /\ alive[l]
    /\ LET m == Clear(Machine, l)
       IN  /\ Commit(m)
           /\ last' = Record("Clear", l, 0, 0, NULL, NULL, m)
    /\ UNCHANGED alive

\* the iterator returned is Iterator{pos.node_->next_node}, read after the call
CallInsertAfter(l, pos, v) ==
    /\ ops < MaxOps
    /\ alive[l]
    /\ pos \in ValidPos(l)
    /\ \E m \in InsertAfter(Machine, l, pos, v) :
          /\ Commit(m)
          /\ last' = Record("InsertAfter", l, 0, v, pos, NextNode(m, pos), m)
    /\ UNCHANGED alive

CallEraseAfter(l, pos) ==
    /\ ops < MaxOps
    /\ alive[l]
    /\ pos \in ValidPos(l)
    /\ NextNode(Machine, pos) # NULL
    /\ LET m == EraseAfter(Machine, l, pos)
       IN  /\ Commit(m)
           /\ last' = Record("EraseAfter", l, 0,
                             heap[NextNode(Machine, pos)].value, pos,
                             NextNode(m, pos), m)
    /\ UNCHANGED alive

\* *it = v through a mutable iterator to a node of l
CallWrite(l, pos, v) ==
    /\ ops < MaxOps
    /\ alive[l]
    /\ pos \in ValidPos(l) \ {Sentinel(l)}
    /\ LET m == [Machine EXCEPT !.heap[pos].value = v]
       IN  /\ Commit(m)
           /\ last' = Record("Write", l, 0, v, pos, NULL, m)
    /\ UNCHANGED alive

Next ==
    \/ \E l \in Lists : CallDefaultCtor(l)
    \/ \E l \in Lists, list \in SeqsUpTo(MaxLen) : CallInitListCtor(l, list)
    \/ \E l, other \in Lists : CallCopyCtor(l, other)
    \/ \E l, rhs \in Lists : CallCopyAssign(l, rhs)
    \/ \E l \in Lists : CallDtor(l)
    \/ \E l, rhs \in Lists : CallSwap(l, rhs)
    \/ \E lhs, rhs \in Lists : CallFreeSwap(lhs, rhs)
    \/ \E l \in Lists, v \in Values : CallPushFront(l, v)
    \/ \E l \in Lists : CallPopFront(l)
    \/ \E l \in Lists : CallClear(l)
    \/ \E l \in Lists : \E pos \in ValidPos(l), v \in Values : CallInsertAfter(l, pos, v)
    \/ \E l \in Lists : \E pos \in ValidPos(l) : CallEraseAfter(l, pos)
    \/ \E l \in Lists : \E pos \in ValidPos(l), v \in Values : CallWrite(l, pos, v)

Spec == Init /\ [][Next]_vars

\* the client when memory can run out during an assignment: it grows its
\* lists and assigns them, and an assignment may fail at any allocation
NextAlloc ==
    \/ \E l, rhs \in Lists : \E q \in 0..(2 * Len(Nodes(rhs))) :
          CallCopyAssignThrow(l, rhs, q)
    \/ \E l, rhs \in Lists : CallCopyAssign(l, rhs)
    \/ \E l \in Lists, v \in Values : CallPushFront(l, v)

SpecAlloc == Init /\ [][NextAlloc]_vars

(* ------------------------------ properties ---------------------------- *)
\* the elements of a sequence
Range(seq) == {seq[i] : i \in 1..Len(seq)}
\* position of node p in a chain; 0 for a sentinel, which precedes the chain
IndexOf(seq, p) == IF p < 0 THEN 0 ELSE CHOOSE i \in 1..Len(seq) : seq[i] = p
\* seq with x put after its k-th element
PutAfter(seq, k, x) == SubSeq(seq, 1, k) \o <<x>> \o SubSeq(seq, k + 1, Len(seq))
\* seq without its (k+1)-th element
DropAfter(seq, k) == SubSeq(seq, 1, k) \o SubSeq(seq, k + 2, Len(seq))
\* the list the last call was made on, before the call
Old == last.pre[last.l]
Other(l) == CHOOSE x \in Lists : x # l

(* C1: size_ of every list equals the number of nodes reachable from its   *)
(* sentinel by next_node links, the sentinel not counted.                   *)
SizeCountsNodes == \A l \in Lists : GetSize(l) = Len(Nodes(l))

\* a list of three nodes, grown by InsertAfter
SizeCountsNodesWitness ==
    /\ last.op = "InsertAfter"
    /\ GetSize(last.l) = 3
    /\ Len(Nodes(last.l)) = 3

(* C2: a list constructed from an initializer list S iterates, from         *)
(* begin() to end(), exactly the elements of S in order, and GetSize() is   *)
(* the length of S.                                                         *)
InitListCtorKeepsOrder ==
    last.op = "InitListCtor" =>
        /\ Elems(last.l) = last.v
        /\ GetSize(last.l) = Len(last.v)

InitListCtorKeepsOrderWitness ==
    /\ last.op = "InitListCtor"
    /\ Len(last.v) = 2
    /\ last.v[1] # last.v[2]
    /\ Elems(last.l) = last.v

(* C3: PushFront(v) followed by PopFront() on the same list restores the    *)
(* list's size and element sequence; the node PopFront removes is the node  *)
(* PushFront created and the value it held is v.                            *)
PushThenPopRestores ==
    [][(last.op = "PushFront" /\ last'.op = "PopFront" /\ last'.l = last.l) =>
          /\ Elems(last.l)' = Old.elems
          /\ GetSize(last.l)' = Old.size
          /\ Nodes(last.l)' = Old.nodes
          /\ last'.v = last.v
          /\ last'.deleted = last.created]_vars

PushThenPopRestoresWitness ==
    /\ last.op = "PopFront"
    /\ last.prev = "PushFront"
    /\ Len(Elems(last.l)) >= 2
    /\ GetSize(last.l) = Old.size - 1

(* C4: a copy-constructed or copy-assigned list equals its source           *)
(* elementwise and shares no node with it, and a mutation of one list       *)
(* (PushFront, PopFront, InsertAfter, EraseAfter, Clear, a write through an *)
(* iterator) leaves the nodes, elements and size of every other list as     *)
(* they were.                                                               *)
CopyIsDeep ==
    /\ (last.op \in CopyOps /\ last.l # last.r) =>
          /\ Elems(last.l) = Elems(last.r)
          /\ GetSize(last.l) = GetSize(last.r)
          /\ OpEq(last.l, last.r)
          /\ Range(Nodes(last.l)) \cap Range(Nodes(last.r)) = {}
          /\ View(last.r) = last.pre[last.r]
    /\ last.op \in MutOps =>
          \A x \in Lists \ {last.l} : View(x) = last.pre[x]

\* a list was copied, then one of the two was changed: they now differ and
\* the one not touched is as it was
CopyIsDeepWitness ==
    /\ last.op \in MutOps
    /\ last.prev \in CopyOps
    /\ Old.elems = last.pre[Other(last.l)].elems
    /\ Len(Old.elems) >= 1
    /\ Elems(last.l) # Old.elems
    /\ View(Other(last.l)) = last.pre[Other(last.l)]

(* C5: InsertAfter(before_begin(), v) and PushFront(v) leave the same       *)
(* element sequence and the same size, on every list and for every v.       *)
Outcome(m, l) == [elems |-> ElemsOf(m, l), size |-> m.size[l]]

InsertAtFrontIsPushFront ==
    /\ \A l \in Lists, v \in Values :
          alive[l] =>
             {Outcome(m, l) : m \in InsertAfter(Machine, l, before_begin(l).node_, v)}
                = {Outcome(m, l) : m \in PushFront(Machine, l, v)}
    /\ (last.op = "InsertAfter" /\ last.pos = before_begin(last.l).node_) =>
          /\ Elems(last.l) = <<last.v>> \o Old.elems
          /\ GetSize(last.l) = Old.size + 1
    /\ last.op = "PushFront" =>
          /\ Elems(last.l) = <<last.v>> \o Old.elems
          /\ GetSize(last.l) = Old.size + 1

InsertAtFrontIsPushFrontWitness ==
    /\ last.op = "InsertAfter"
    /\ last.pos = before_begin(last.l).node_
    /\ Old.size >= 1
    /\ Elems(last.l) = <<last.v>> \o Old.elems

(* C6: InsertAfter(pos, v), pos being before_begin() or a node of the list, *)
(* creates exactly one node holding v, links it immediately after pos,      *)
(* keeps every other node in its place in the order, adds one to the size   *)
(* and returns an iterator to the new node.                                 *)
InsertAfterPlacesOneNode ==
    last.op = "InsertAfter" =>
        LET k == IndexOf(Old.nodes, last.pos)
        IN  /\ last.created = <<last.ret>>
            /\ last.deleted = <<>>
            /\ \A x \in Lists : last.ret \notin Range(last.pre[x].nodes)
            /\ NextNode(Machine, last.pos) = last.ret
            /\ heap[last.ret].value = last.v
            /\ Nodes(last.l) = PutAfter(Old.nodes, k, last.ret)
            /\ Elems(last.l) = PutAfter(Old.elems, k, last.v)
            /\ GetSize(last.l) = Old.size + 1

\* insertion between two nodes
InsertAfterPlacesOneNodeWitness ==
    /\ last.op = "InsertAfter"
    /\ last.pos > 0
    /\ Old.size = 2
    /\ last.pos = Old.nodes[1]
    /\ Nodes(last.l) = <<Old.nodes[1], last.ret, Old.nodes[2]>>

(* C7: EraseAfter(pos), pos having a successor, deletes exactly that        *)
(* successor, keeps every other node in order, takes one from the size and  *)
(* returns an iterator to the node now after pos; when the successor was    *)
(* the last node the result is end().                                       *)
EraseAfterRemovesSuccessor ==
    last.op = "EraseAfter" =>
        LET k == IndexOf(Old.nodes, last.pos)
        IN  /\ last.deleted = <<Old.nodes[k + 1]>>
            /\ last.created = <<>>
            /\ Old.nodes[k + 1] \notin DOMAIN heap
            /\ last.v = Old.elems[k + 1]
            /\ Nodes(last.l) = DropAfter(Old.nodes, k)
            /\ Elems(last.l) = DropAfter(Old.elems, k)
            /\ GetSize(last.l) = Old.size - 1
            /\ last.ret = NextNode(Machine, last.pos)
            /\ last.ret = IF k + 2 <= Len(Old.nodes) THEN Old.nodes[k + 2] ELSE NULL
            /\ (k + 1 = Len(Old.nodes)) =>
                  /\ Iterator(last.ret) = end
                  /\ Elems(last.l) = SubSeq(Old.elems, 1, Len(Old.elems) - 1)

\* pos is the node before the last one
EraseAfterRemovesSuccessorWitness ==
    /\ last.op = "EraseAfter"
    /\ last.pos > 0
    /\ Len(Old.nodes) >= 2
    /\ last.pos = Old.nodes[Len(Old.nodes) - 1]
    /\ Iterator(last.ret) = end
    /\ Len(Elems(last.l)) = Len(Old.elems) - 1

(* C8: A == B holds exactly when the two lists have the same length and     *)
(* equal elements position by position; A != B is its negation; two lists   *)
(* built from the same sequence are equal.                                  *)
SameSequence(s, t) == Len(s) = Len(t) /\ \A i \in 1..Len(s) : s[i] = t[i]

EqualityIsElementwise ==
    /\ \A a, b \in Lists :
          (alive[a] /\ alive[b]) =>
             /\ OpEq(a, b) <=> SameSequence(Elems(a), Elems(b))
             /\ OpNe(a, b) <=> ~SameSequence(Elems(a), Elems(b))
    /\ (last.op = "InitListCtor" /\ alive[Other(last.l)]
            /\ Elems(Other(last.l)) = last.v) => OpEq(last.l, Other(last.l))

\* the second list built from the sequence the first one holds
EqualityIsElementwiseWitness ==
    /\ last.op = "InitListCtor"
    /\ Len(last.v) = 2
    /\ alive[Other(last.l)]
    /\ Elems(Other(last.l)) = last.v
    /\ OpEq(1, 2)
    /\ ~OpNe(2, 1)

(* C9: A < B is the lexicographic order of the element sequences, a strict  *)
(* prefix being less; A > B iff B < A, A <= B iff not B < A, A >= B iff     *)
(* not A < B; exactly one of A < B, A == B, A > B holds.                    *)
LexLess(s, t) ==
    \E k \in 0..Len(s) :
        /\ k <= Len(t)
        /\ \A i \in 1..k : s[i] = t[i]
        /\ \/ k = Len(s) /\ k < Len(t)
           \/ k < Len(s) /\ k < Len(t) /\ s[k + 1] < t[k + 1]

OrderIsLexicographic ==
    \A a, b \in Lists :
        (alive[a] /\ alive[b]) =>
            /\ OpLt(a, b) <=> LexLess(Elems(a), Elems(b))
            /\ OpGt(a, b) <=> LexLess(Elems(b), Elems(a))
            /\ OpLe(a, b) <=> ~LexLess(Elems(b), Elems(a))
            /\ OpGe(a, b) <=> ~LexLess(Elems(a), Elems(b))
            /\ Cardinality({x \in {"lt", "eq", "gt"} :
                    \/ x = "lt" /\ OpLt(a, b)
                    \/ x = "eq" /\ OpEq(a, b)
                    \/ x = "gt" /\ OpGt(a, b)}) = 1

\* a list and its proper prefix, built separately
OrderIsLexicographicWitness ==
    /\ last.op = "InitListCtor"
    /\ alive[1] /\ alive[2]
    /\ Len(Elems(1)) = 1
    /\ Len(Elems(2)) = 2
    /\ Elems(2)[1] = Elems(1)[1]
    /\ OpLt(1, 2) /\ OpGt(2, 1) /\ OpLe(1, 2) /\ OpGe(2, 1)
    /\ ~OpLt(2, 1)

(* C10: after a swap of two lists, by the member or by the free function,   *)
(* each holds the nodes, elements and size the other had, no node was       *)
(* created or deleted, the two functions have the same effect, and a second *)
(* swap of the same lists restores both.                                    *)
SwapExchanges ==
    /\ [](last.op \in SwapOps =>
             /\ View(last.l) = last.pre[last.r]
             /\ View(last.r) = last.pre[last.l]
             /\ last.created = <<>>
             /\ last.deleted = <<>>)
    /\ [](\A a, b \in Lists :
             (alive[a] /\ alive[b]) => FreeSwap(Machine, a, b) = swap(Machine, a, b))
    /\ [][(last.op \in SwapOps /\ last'.op \in SwapOps
              /\ {last'.l, last'.r} = {last.l, last.r}) =>
                 \A x \in Lists : View(x)' = last.pre[x]]_vars

\* two different non-empty lists exchanged
SwapExchangesWitness ==
    /\ last.op \in SwapOps
    /\ last.l # last.r
    /\ last.pre[last.l].size = 2
    /\ last.pre[last.r].size = 1
    /\ GetSize(last.l) = 1
    /\ Elems(last.r) = last.pre[last.l].elems
    /\ Elems(last.l) = last.pre[last.r].elems

(* C11: when an allocation fails while operator= copies its source, the    *)
(* target (and the source) keep their nodes, elements and size, and every   *)
(* node allocated for the partial copy has been deleted, so that no node    *)
(* outside the two lists is left.                                           *)
LiveNodes == UNION {Range(Nodes(x)) : x \in Lists}

CopyAssignIsExceptionSafe ==
    last.op = "CopyAssignThrow" =>
        /\ View(last.l) = last.pre[last.l]
        /\ View(last.r) = last.pre[last.r]
        /\ Len(last.created) = last.v
        /\ Len(last.deleted) = last.v
        /\ Range(last.created) = Range(last.deleted)
        /\ DOMAIN heap = LiveNodes

\* the failure comes in the second pass, after three allocations
CopyAssignIsExceptionSafeWitness ==
    /\ last.op = "CopyAssignThrow"
    /\ last.v = 3
    /\ last.pre[last.r].size = 2
    /\ Old.size >= 1
    /\ Elems(last.l) = Old.elems
    /\ Elems(last.l) # Elems(last.r)

(* C12: Clear and the destructor delete every node of the list exactly     *)
(* once, from the first to the last, whatever the number of nodes; no node  *)
(* stays allocated outside the lists; after Clear the size is 0, IsEmpty()  *)
(* holds, and the list takes new elements.                                  *)
ClearReleasesEveryNode ==
    /\ last.op \in {"Clear", "Dtor"} =>
          /\ last.deleted = Old.nodes
          /\ Cardinality(Range(last.deleted)) = Len(last.deleted)
          /\ last.created = <<>>
          /\ Range(Old.nodes) \cap DOMAIN heap = {}
          /\ DOMAIN heap = LiveNodes
          /\ Nodes(last.l) = <<>>
          /\ GetSize(last.l) = 0
          /\ IsEmpty(last.l)
    /\ (last.op \in {"PushFront", "InsertAfter"} /\ last.prev = "Clear") =>
          /\ Elems(last.l) = <<last.v>>
          /\ GetSize(last.l) = 1
          /\ ~IsEmpty(last.l)

\* a list of two nodes cleared
ClearReleasesEveryNodeWitness ==
    /\ last.op = "Clear"
    /\ Len(Old.nodes) = 2
    /\ last.deleted = Old.nodes
    /\ IsEmpty(last.l)

(* C13: every allocated node is reachable from the sentinel of exactly one *)
(* list and has exactly one predecessor, and no chain has a cycle, in every *)
(* state and in every state a copy made from it passes through, the         *)
(* temporaries tmp, tmp1 and tmp2 counted as lists; Clear and the           *)
(* destructor delete nodes of their own list only.                          *)
TreeShaped(m) ==
    LET chain == [l \in DOMAIN m.head |-> NodesOf(m, l)]
        reach == [l \in DOMAIN m.head |-> Range(chain[l])]
    IN  /\ \A a \in DOMAIN m.heap :
              /\ Cardinality({l \in DOMAIN m.head : a \in reach[l]}) = 1
              /\ Cardinality({l \in DOMAIN m.head : m.head[l] = a})
                    + Cardinality({b \in DOMAIN m.heap : m.heap[b].next_node = a}) = 1
        /\ \A l \in DOMAIN m.head : Cardinality(reach[l]) = Len(chain[l])

OwnershipIsTreeShaped ==
    /\ TreeShaped(Machine)
    /\ \A l, x \in Lists :
          (ops < MaxOps /\ alive[l] /\ alive[x]) =>
             \A m \in CopyAssignStages(Machine, l, x) : TreeShaped(m)
    /\ \A l, x \in Lists :
          (ops < MaxOps /\ ~alive[l] /\ alive[x]) =>
             \A m \in CopyCtorStages(Machine, l, x) : TreeShaped(m)
    /\ last.op \in {"Clear", "Dtor"} =>
          \A x \in Lists \ {last.l} :
             /\ Range(last.deleted) \cap Range(last.pre[x].nodes) = {}
             /\ View(x) = last.pre[x]

\* two lists of two nodes each, one assigned from the other, one list next
\* to be assigned from the other again
OwnershipIsTreeShapedWitness ==
    /\ last.op = "CopyAssign"
    /\ last.l # last.r
    /\ Len(Nodes(1)) = 2
    /\ Len(Nodes(2)) = 2
    /\ Cardinality(DOMAIN heap) = 4
    /\ ops < MaxOps
    /\ \E m \in CopyAssignStages(Machine, 1, 2) :
          /\ {tmp1, tmp2} \subseteq DOMAIN m.head
          /\ Len(NodesOf(m, tmp1)) = 2
          /\ Len(NodesOf(m, tmp2)) = 2
          /\ Cardinality(DOMAIN m.heap) = 8

(* C14: InsertAfter(pos, v) followed by EraseAfter(pos) on the same list   *)
(* restores the nodes, the elements and the size; EraseAfter deletes the    *)
(* node InsertAfter created and returns an iterator to the node that        *)
(* followed pos before the insertion, or end() when there was none.         *)
InsertThenEraseRestores ==
    [][(last.op = "InsertAfter" /\ last'.op = "EraseAfter"
           /\ last'.l = last.l /\ last'.pos = last.pos) =>
          /\ Nodes(last.l)' = Old.nodes
          /\ Elems(last.l)' = Old.elems
          /\ GetSize(last.l)' = Old.size
          /\ last'.deleted = last.created
          /\ last'.v = last.v
          /\ last'.ret = LET k == IndexOf(Old.nodes, last.pos)
                         IN  IF k + 1 <= Len(Old.nodes) THEN Old.nodes[k + 1]
                             ELSE NULL]_vars

\* inserted between two nodes and erased again
InsertThenEraseRestoresWitness ==
    /\ last.op = "EraseAfter"
    /\ last.prev = "InsertAfter"
    /\ last.pos > 0
    /\ last.ret # NULL
    /\ Len(Nodes(last.l)) = 2
    /\ Nodes(last.l) = <<last.pos, last.ret>>

(* C18: on a non-empty list EraseAfter(before_begin()) and PopFront()       *)
(* delete the same node, the first, and leave the same elements and size;   *)
(* the iterator EraseAfter returns is the new begin().                      *)
EraseAtFrontIsPopFront ==
    /\ \A l \in Lists :
          (alive[l] /\ ~IsEmpty(l) /\ begin(Machine, l) # end) =>
             LET e == EraseAfter(Machine, l, before_begin(l).node_)
                 p == PopFront(Machine, l)
             IN  /\ ElemsOf(e, l) = ElemsOf(p, l)
                 /\ NodesOf(e, l) = NodesOf(p, l)
                 /\ e.size[l] = p.size[l]
                 /\ e.deleted = p.deleted
                 /\ e.deleted = <<begin(Machine, l).node_>>
                 /\ Iterator(NextNode(e, before_begin(l).node_)) = begin(p, l)
    /\ (last.op = "EraseAfter" /\ last.pos = before_begin(last.l).node_) =>
          /\ Elems(last.l) = Tail(Old.elems)
          /\ GetSize(last.l) = Old.size - 1
          /\ Iterator(last.ret) = begin(Machine, last.l)
    /\ last.op = "PopFront" =>
          /\ Elems(last.l) = Tail(Old.elems)
          /\ GetSize(last.l) = Old.size - 1

EraseAtFrontIsPopFrontWitness ==
    /\ last.op = "EraseAfter"
    /\ last.pos = before_begin(last.l).node_
    /\ Old.size = 2
    /\ last.deleted = <<Old.nodes[1]>>
    /\ last.ret = Old.nodes[2]
    /\ Iterator(last.ret) = begin(Machine, last.l)

(* C15: two iterators are equal exactly when they stand at the same        *)
(* position of the same list, or both at the end, whether each is mutable   *)
(* or read-only; != is the negation of ==; before_begin() equals neither    *)
(* begin() nor end().                                                       *)
\* the mutable and the read-only iterator at position k of l: 0 is
\* before_begin(), 1 the first element, size + 1 the end
At(l, k) == Advance(Machine, before_begin(l), k)
CAt(l, k) == Advance(Machine, cbefore_begin(l), k)
Positions(l) == 0..(Len(Nodes(l)) + 1)

IteratorEqualityIsIdentity ==
    /\ \A l \in Lists :
          alive[l] =>
             /\ ~ItEq(before_begin(l), begin(Machine, l))
             /\ ~ItEq(before_begin(l), end)
             /\ ~ItEq(cbefore_begin(l), cbegin(Machine, l))
             /\ ~ItEq(cbefore_begin(l), cend)
             /\ ~ItEq(before_begin(l), cbegin(Machine, l))
             /\ ItNe(before_begin(l), cend)
    /\ \A l1, l2 \in Lists :
          (alive[l1] /\ alive[l2]) =>
             \A j \in Positions(l1), k \in Positions(l2) :
                \A x \in {At(l1, j), CAt(l1, j)}, y \in {At(l2, k), CAt(l2, k)} :
                   /\ ItEq(x, y) <=>
                         \/ l1 = l2 /\ j = k
                         \/ j = Len(Nodes(l1)) + 1 /\ k = Len(Nodes(l2)) + 1
                   /\ ItNe(x, y) <=> ~ItEq(x, y)

\* two non-empty lists
IteratorEqualityIsIdentityWitness ==
    /\ alive[1] /\ alive[2]
    /\ Len(Nodes(1)) = 2
    /\ Len(Nodes(2)) >= 1
    /\ ItEq(begin(Machine, 1), cbegin(Machine, 1))
    /\ ItEq(At(1, 2), CAt(1, 2))
    /\ ItNe(At(1, 1), CAt(1, 2))
    /\ ItNe(begin(Machine, 1), cbegin(Machine, 2))
    /\ ItEq(At(1, 3), CAt(2, Len(Nodes(2)) + 1))
    /\ ItNe(before_begin(1), begin(Machine, 1))

(* C16: across PushFront, PopFront, InsertAfter and EraseAfter an iterator  *)
(* to a node that the call does not delete still refers to a live node of   *)
(* the same list with the same value; the call deletes at most one node, a  *)
(* node of its own list, and only iterators to that node dangle.            *)
IteratorsStayValid ==
    last.op \in {"PushFront", "PopFront", "InsertAfter", "EraseAfter"} =>
        /\ Len(last.deleted) <= 1
        /\ last.op \in {"PushFront", "InsertAfter"} => last.deleted = <<>>
        /\ \A x \in Lists : \A i \in 1..Len(last.pre[x].nodes) :
              LET p == last.pre[x].nodes[i]
              IN  IF p \in Range(last.deleted)
                  THEN /\ x = last.l
                       /\ p \notin DOMAIN heap
                       /\ p \notin LiveNodes
                  ELSE /\ p \in DOMAIN heap
                       /\ heap[p].value = last.pre[x].elems[i]
                       /\ p \in Range(Nodes(x))

\* the middle node of three erased: iterators to the first and the last stay
IteratorsStayValidWitness ==
    /\ last.op = "EraseAfter"
    /\ Len(Old.nodes) = 3
    /\ last.pos = Old.nodes[1]
    /\ last.deleted = <<Old.nodes[2]>>
    /\ Nodes(last.l) = <<Old.nodes[1], Old.nodes[3]>>
    /\ heap[Old.nodes[3]].value = Old.elems[3]

(* C17: from begin(), end() is reached after exactly GetSize() increments,  *)
(* none of them made at the end; one increment of before_begin() gives      *)
(* begin(); begin() == end() iff IsEmpty() iff GetSize() = 0; Clear and the *)
(* destructor finish after as many deletions as the list had elements.      *)
TraversalTakesSizeSteps ==
    /\ \A l \in Lists :
          alive[l] =>
             /\ CountToEnd(Machine, begin(Machine, l), 0) = GetSize(l)
             /\ CountToEnd(Machine, cbegin(Machine, l), 0) = GetSize(l)
             /\ \A k \in 0..(GetSize(l) - 1) :
                   ItNe(Advance(Machine, begin(Machine, l), k), end)
             /\ ItEq(Advance(Machine, begin(Machine, l), GetSize(l)), end)
             /\ PreIncrement(Machine, before_begin(l)) = begin(Machine, l)
             /\ ItEq(begin(Machine, l), end) <=> IsEmpty(l)
             /\ IsEmpty(l) <=> GetSize(l) = 0
    /\ last.op \in {"Clear", "Dtor"} => Len(last.deleted) = Old.size

TraversalTakesSizeStepsWitness ==
    /\ last.op = "PushFront"
    /\ GetSize(last.l) = 3
    /\ CountToEnd(Machine, begin(Machine, last.l), 0) = 3
    /\ alive[Other(last.l)]
    /\ IsEmpty(Other(last.l))
    /\ ItEq(begin(Machine, Other(last.l)), end)

(* C19: assigning a list to itself and swapping a list with itself leave    *)
(* the nodes, the elements and the size of every list as they were and      *)
(* make no allocation and no deletion.                                      *)
SelfAssignAndSelfSwapDoNothing ==
    (last.op \in SwapOps \cup {"CopyAssign"} /\ last.l = last.r) =>
        /\ \A x \in Lists : View(x) = last.pre[x]
        /\ last.created = <<>>
        /\ last.deleted = <<>>
        /\ DOMAIN heap = LiveNodes

\* a list of two elements swapped with itself, then assigned to itself
SelfAssignAndSelfSwapDoNothingWitness ==
    /\ last.op = "CopyAssign"
    /\ last.l = last.r
    /\ last.prev \in SwapOps
    /\ Len(Nodes(last.l)) = 2
    /\ Nodes(last.l) = Old.nodes

====
